---- MODULE Spec2Model ----
(***************************************************************************)
(* A model of the USOS timetable scraper: the batch driver                 *)
(* (run_from_urls.py) as a state machine over the URL table, and the pure  *)
(* text functions of both scripts (slug, parse_info_slot, the time         *)
(* extraction of scrape_timetable, raw_data_to_js and the template         *)
(* substitution) as operators over strings.                                *)
(*                                                                         *)
(* A Python str is modelled as a sequence of one-character strings; the    *)
(* characters that are awkward to write in a TLA+ string have names        *)
(* (NL, NBSP, QUOTE, BACKSLASH, EMDASH, ENDASH).                           *)
(***************************************************************************)
EXTENDS Integers, Sequences, FiniteSets, TLC

VARIABLES
    \* ---- run_from_urls.main ----
    urls_map,     \* the URLS dict, flattened in insertion order: <<[program, year, url]>>
    pc,           \* where main is: "start", "loop", "fetch", "write", "scrape", "cleanup", "exit"
    entries,      \* load_urls_dict's result
    idx,          \* position of the for loop in entries (1-based)
    ok,           \* main's counter of built timetables
    body,         \* r.text of the current entry's response
    tmp,          \* the file SCRIPT_DIR/.tmp_timetable.html: <<>> when absent, <<content>> otherwise
    out_files,    \* the output directory: file name -> content
    ran,          \* outcome of the current entry's subprocess.run
    scrapes,      \* the subprocess.run calls so far: <<[entry, input (what tmp held), result]>>
    log,          \* the lines printed to stdout
    exit_code,    \* the process's exit code once pc = "exit"
    \* ---- slug ----
    label,        \* the argument of slug
    slugged,      \* <<>> before the call, <<slug(label)>> after it
    \* ---- scrape_timetable.parse_info_slot ----
    info_text,    \* the argument of parse_info_slot
    info_slot,    \* <<>> before the call, <<[type, group, room]>> after it
    \* ---- scrape_timetable.scrape_timetable, the body of the loop over entries ----
    entry,        \* the timetable-entry element at hand
    appended,     \* <<>> before the body runs, <<the events it appended>> after it
    \* ---- scrape_timetable.scrape_timetable ----
    page,         \* the parsed page: its elements in document order, <<[parent, tag, text, entry]>>
    events,       \* <<>> before the call, <<the list returned>> after it
    \* ---- scrape_timetable.generate_readable_html ----
    event_list,   \* the events argument
    template,     \* the text of the template file
    rendered      \* <<>> before the call, <<the text written to output_path>> after it

batchVars == <<urls_map, pc, entries, idx, ok, body, tmp, out_files, ran, scrapes, log, exit_code>>
slugVars == <<label, slugged>>
infoVars == <<info_text, info_slot>>
entryVars == <<entry, appended>>
scrapeVars == <<page, events>>
renderVars == <<event_list, template, rendered>>
vars == <<batchVars, slugVars, infoVars, entryVars, scrapeVars, renderVars>>

\* What a batch run leaves alone.
callVars == <<slugVars, infoVars, entryVars, scrapeVars, renderVars>>

----------------------------------------------------------------------------
(* Bounds of the model. *)

\* The URL table holds at most this many (program, year) pairs.
MaxEntries == 2

\* Labels given to slug have at most this many characters.
MaxLabelLen == 4

\* Info texts given to parse_info_slot have at most this many characters.
MaxInfoLen == 4

\* A style attribute has at most this many declarations.
MaxDecls == 2

\* A page has at most this many elements.
MaxNodes == 3

\* An event list given to the renderer has at most this many events.
MaxEvents == 2

----------------------------------------------------------------------------
(* Characters and the str methods the scripts use. *)

NL == "<nl>"
NBSP == "<nbsp>"
QUOTE == "<quote>"
BACKSLASH == "<backslash>"
EMDASH == "<emdash>"
ENDASH == "<endash>"

\* str.isspace: what str.strip() removes and what \s matches.
IsSpace(c) == c \in {" ", NL, NBSP}

IsDigit(c) == c \in {"0", "1", "2", "3", "4", "5", "6", "7", "8", "9"}

IsUpper(c) == c \in {"A", "B", "G", "R", "W"}

IsLowerLetter(c) == c \in {"a", "b", "c", "e", "g", "p", "r", "x"}

\* \w of a Python 3 str pattern: alphanumerics and the underscore.
IsWord(c) == IsDigit(c) \/ IsUpper(c) \/ IsLowerLetter(c) \/ c = "_"

\* str.lower, one character.
ToLower(c) ==
    CASE c = "A" -> "a"
      [] c = "B" -> "b"
      [] c = "G" -> "g"
      [] c = "R" -> "r"
      [] c = "W" -> "w"
      [] OTHER -> c

Lower(s) == [k \in 1..Len(s) |-> ToLower(s[k])]

SetMin(S) == CHOOSE m \in S : \A n \in S : m <= n
SetMax(S) == CHOOSE m \in S : \A n \in S : n <= m

\* str.strip(chars) where chars is the set S: drop the leading and trailing
\* characters that are in S.
StripSet(s, S) ==
    LET keep == {k \in 1..Len(s) : s[k] \notin S}
    IN  IF keep = {} THEN <<>> ELSE SubSeq(s, SetMin(keep), SetMax(keep))

\* str.strip(): drop leading and trailing whitespace.
Strip(s) == StripSet(s, {c \in {" ", NL, NBSP} : IsSpace(c)})

\* All strings over alphabet A of length at most n.
StringsUpTo(A, n) == UNION {[1..k -> A] : k \in 0..n}

\* Code point order of the characters that occur in table labels.
Ord(c) ==
    CASE c = NL -> 10
      [] c = " " -> 32
      [] c = QUOTE -> 34
      [] c = "," -> 44
      [] c = "-" -> 45
      [] c = "1" -> 49
      [] c = "2" -> 50
      [] c = "A" -> 65
      [] c = "B" -> 66
      [] c = BACKSLASH -> 92
      [] c = "_" -> 95
      [] c = "a" -> 97
      [] c = "b" -> 98
      [] c = "c" -> 99
      [] OTHER -> 120

\* s < t for Python strs (lexicographic by code point).
RECURSIVE StrLess(_, _)
StrLess(s, t) ==
    IF t = <<>> THEN FALSE
    ELSE IF s = <<>> THEN TRUE
    ELSE IF Ord(Head(s)) # Ord(Head(t)) THEN Ord(Head(s)) < Ord(Head(t))
    ELSE StrLess(Tail(s), Tail(t))

----------------------------------------------------------------------------
(* run_from_urls.slug and output_filename *)

Page == <<"p", "a", "g", "e">>

\* re.sub(r"[^\w\-]", "_", s): every character that is neither a word
\* character nor a hyphen becomes an underscore, one for one.
SubNonWord(s) ==
    [k \in 1..Len(s) |-> IF IsWord(s[k]) \/ s[k] = "-" THEN s[k] ELSE "_"]

\* slug with the default forgotten: an all-punctuation label gives "".
slug_nodefault(s) == StripSet(SubNonWord(Lower(Strip(s))), {"_"})

slug(s) ==
    LET r == StripSet(SubNonWord(Lower(Strip(s))), {"_"})
    IN  IF r = <<>> THEN Page ELSE r

output_filename(program, year) ==
    slug(program) \o <<"_">> \o slug(year) \o <<".", "h", "t", "m", "l">>

----------------------------------------------------------------------------
(* run_from_urls.load_urls_dict *)

\* The sort key of line 50.
SortKeyLess(e, f) ==
    \/ StrLess(Lower(e.program), Lower(f.program))
    \/ /\ Lower(e.program) = Lower(f.program)
       /\ StrLess(Lower(e.year), Lower(f.year))

\* list.sort is stable: insert each element after the elements that are not
\* greater than it.
RECURSIVE StableSort(_)
StableSort(s) ==
    IF s = <<>> THEN <<>>
    ELSE LET rest == StableSort(SubSeq(s, 1, Len(s) - 1))
             e == s[Len(s)]
             n == Cardinality({k \in 1..Len(rest) : ~SortKeyLess(e, rest[k])})
         IN  SubSeq(rest, 1, n) \o <<e>> \o SubSeq(rest, n + 1, Len(rest))

\* Keep the entries whose url is a non-empty str, then sort.
load_urls_dict(m) ==
    StableSort(SelectSeq(m, LAMBDA e : e.url # <<>>))

----------------------------------------------------------------------------
(* The inputs of a batch run. *)

ProgramLabels == {<<"A", " ", "b">>, <<"a", "_", "b">>, <<"c">>}
YearLabels == {<<"1">>, <<"2">>}

\* The URL of a table entry (urls.plan_url builds one per label).
UrlOf(program, year) == program \o <<"?">> \o year

\* A table entry either has its URL or an empty one, which load_urls_dict skips.
TableEntries ==
    {[program |-> p, year |-> y, url |-> u] :
        p \in ProgramLabels, y \in YearLabels, u \in {<<>>}} \cup
    {[program |-> p, year |-> y, url |-> UrlOf(p, y)] :
        p \in ProgramLabels, y \in YearLabels}

\* A dict of dicts, flattened: no (program, year) key twice, and the years of
\* one program next to each other.
IsFlattenedDict(m) ==
    /\ \A i, j \in 1..Len(m) :
           i # j => <<m[i].program, m[i].year>> # <<m[j].program, m[j].year>>
    /\ \A i, j, k \in 1..Len(m) :
           (i < j /\ j < k /\ m[i].program = m[k].program) => m[j].program = m[i].program

UrlTables == {m \in StringsUpTo(TableEntries, MaxEntries) : IsFlattenedDict(m)}

\* The page the portal serves at a URL, and what a file holds.
PageAt(url) == [url |-> url, whole |-> TRUE]
Stale == [url |-> <<"o", "l", "d">>, whole |-> TRUE]
Partial(content) == [url |-> content.url, whole |-> FALSE]

NoPage == [url |-> <<>>, whole |-> FALSE]

Line(kind, a, b) == [kind |-> kind, a |-> a, b |-> b]

----------------------------------------------------------------------------
(* run_from_urls.main and fetch_and_build, one action per step. *)

IdleSlug == label = <<>> /\ slugged = <<>>

IdleInfo == info_text = <<>> /\ info_slot = <<>>

NoEntry == [style |-> <<>>, name |-> <<>>, time_span |-> <<>>, dialog_ev |-> <<>>, info |-> <<>>]

IdleEntry == entry = NoEntry /\ appended = <<>>

IdleScrape == page = <<>> /\ events = <<>>

IdleRender == event_list = <<>> /\ template = <<>> /\ rendered = <<>>

IdleBatch ==
    /\ urls_map = <<>>
    /\ pc = "idle"
    /\ entries = <<>>
    /\ idx = 0
    /\ ok = 0
    /\ body = NoPage
    /\ tmp = <<>>
    /\ out_files = <<>>
    /\ ran = "none"
    /\ scrapes = <<>>
    /\ log = <<>>
    /\ exit_code = 0

InitBatch ==
    /\ urls_map \in UrlTables
    /\ pc = "start"
    /\ entries = <<>>
    /\ idx = 0
    /\ ok = 0
    /\ body = NoPage
    /\ tmp \in {<<>>, <<Stale>>}
    /\ out_files = <<>>
    /\ ran = "none"
    /\ scrapes = <<>>
    /\ log = <<>>
    /\ exit_code = 0

\* Lines 103-106: a missing urls.py or template.html is fatal.
MainMissingFile ==
    /\ pc = "start"
    /\ \E what \in {"missing_urls", "missing_template"} :
           log' = Append(log, Line(what, 0, 0))
    /\ pc' = "exit"
    /\ exit_code' = 1
    /\ UNCHANGED <<urls_map, entries, idx, ok, body, tmp, out_files, ran, scrapes>>
    /\ UNCHANGED callVars

WriteFile(files, name, content) ==
    [n \in (DOMAIN files) \cup {name} |-> IF n = name THEN content ELSE files[n]]

IndexHtml == <<"i", "n", "d", "e", "x", ".", "h", "t", "m", "l">>

\* Lines 108-117: load the table; an empty one gets the placeholder page.
MainLoad ==
    /\ pc = "start"
    /\ entries' = load_urls_dict(urls_map)
    /\ IF entries' = <<>>
       THEN /\ log' = Append(log, Line("no_urls", 0, 0))
            /\ out_files' = WriteFile(out_files, IndexHtml, NoPage)
            /\ pc' = "exit"
            /\ idx' = idx
       ELSE /\ log' = log
            /\ out_files' = out_files
            /\ pc' = "loop"
            /\ idx' = 1
    /\ ok' = 0
    /\ exit_code' = 0
    /\ UNCHANGED <<urls_map, body, tmp, ran, scrapes>>
    /\ UNCHANGED callVars

\* Lines 118-121: the next entry, or line 124 after the last one.
LoopNext ==
    /\ pc = "loop"
    /\ idx <= Len(entries)
    /\ log' = Append(log, Line("entry", idx,
                            output_filename(entries[idx].program, entries[idx].year)))
    /\ pc' = "fetch"
    /\ UNCHANGED <<urls_map, entries, idx, ok, body, tmp, out_files, ran, scrapes, exit_code>>
    /\ UNCHANGED callVars

LoopDone ==
    /\ pc = "loop"
    /\ idx > Len(entries)
    /\ log' = Append(log, Line("built", ok, Len(entries)))
    /\ pc' = "exit"
    /\ UNCHANGED <<urls_map, entries, idx, ok, body, tmp, out_files, ran, scrapes, exit_code>>
    /\ UNCHANGED callVars

\* Lines 60-65: the GET succeeds, or raises a RequestException (a network
\* error, or raise_for_status on an error status), which returns False.
\* fetch_and_build returning True from its except block.
FetchFails_returns_true ==
    /\ pc = "fetch"
    /\ log' = Append(log, Line("fetch_failed", idx, 0))
    /\ ok' = ok + 1
    /\ idx' = idx + 1
    /\ pc' = "loop"
    /\ UNCHANGED <<urls_map, entries, body, tmp, out_files, ran, scrapes, exit_code>>
    /\ UNCHANGED callVars

FetchFails ==
    /\ pc = "fetch"
    /\ log' = Append(log, Line("fetch_failed", idx, 0))
    /\ idx' = idx + 1
    /\ pc' = "loop"
    /\ UNCHANGED <<urls_map, entries, ok, body, tmp, out_files, ran, scrapes, exit_code>>
    /\ UNCHANGED callVars

FetchOk ==
    /\ pc = "fetch"
    /\ body' = PageAt(entries[idx].url)
    /\ pc' = "write"
    /\ UNCHANGED <<urls_map, entries, idx, ok, tmp, out_files, ran, scrapes, log, exit_code>>
    /\ UNCHANGED callVars

\* Lines 67-68: tmp.write_text is outside every try block.
WriteTmpOk ==
    /\ pc = "write"
    /\ tmp' = <<body>>
    /\ pc' = "scrape"
    /\ UNCHANGED <<urls_map, entries, idx, ok, body, out_files, ran, scrapes, log, exit_code>>
    /\ UNCHANGED callVars

\* An OSError of write_text (disk full, read-only directory) reaches main's
\* caller: the file is untouched or holds part of the page, the traceback is
\* printed and the interpreter exits with 1.
WriteTmpRaises ==
    /\ pc = "write"
    /\ tmp' \in {tmp, <<Partial(body)>>}
    /\ log' = Append(log, Line("traceback", idx, 0))
    /\ pc' = "exit"
    /\ exit_code' = 1
    /\ UNCHANGED <<urls_map, entries, idx, ok, body, out_files, ran, scrapes>>
    /\ UNCHANGED callVars

\* Lines 70-82: subprocess.run(..., check=True). The child scrapes tmp and
\* writes the output file; a non-zero exit raises CalledProcessError; a child
\* that cannot be started (no "python" on PATH) raises an OSError.
ScrapeRuns ==
    /\ pc = "scrape"
    /\ \E res \in {"ok", "CalledProcessError", "OSError"} :
        /\ ran' = res
        /\ scrapes' = Append(scrapes, [entry |-> idx, input |-> tmp[1], result |-> res])
        /\ out_files' =
               IF res = "ok"
               THEN WriteFile(out_files,
                        output_filename(entries[idx].program, entries[idx].year),
                        tmp[1])
               ELSE out_files
    /\ pc' = "cleanup"
    /\ UNCHANGED <<urls_map, entries, idx, ok, body, tmp, log, exit_code>>
    /\ UNCHANGED callVars

\* Lines 83-89: the finally block removes tmp, then fetch_and_build returns
\* True, returns False after reporting, or lets the OSError through.
Cleanup_keep_on_failure ==
    /\ pc = "cleanup"
    /\ tmp' = IF ran = "ok" THEN <<>> ELSE tmp
    /\ ran' = "none"
    /\ CASE ran = "ok" ->
              /\ ok' = ok + 1
              /\ idx' = idx + 1
              /\ pc' = "loop"
              /\ UNCHANGED <<log, exit_code>>
         [] ran = "CalledProcessError" ->
              /\ log' = Append(log, Line("scrape_failed", idx, 0))
              /\ idx' = idx + 1
              /\ pc' = "loop"
              /\ UNCHANGED <<ok, exit_code>>
         [] OTHER ->
              /\ log' = Append(log, Line("traceback", idx, 0))
              /\ pc' = "exit"
              /\ exit_code' = 1
              /\ UNCHANGED <<ok, idx>>
    /\ UNCHANGED <<urls_map, entries, body, out_files, scrapes>>
    /\ UNCHANGED callVars

Cleanup ==
    /\ pc = "cleanup"
    /\ tmp' = <<>>
    /\ ran' = "none"
    /\ CASE ran = "ok" ->
              /\ ok' = ok + 1
              /\ idx' = idx + 1
              /\ pc' = "loop"
              /\ UNCHANGED <<log, exit_code>>
         [] ran = "CalledProcessError" ->
              /\ log' = Append(log, Line("scrape_failed", idx, 0))
              /\ idx' = idx + 1
              /\ pc' = "loop"
              /\ UNCHANGED <<ok, exit_code>>
         [] OTHER ->
              /\ log' = Append(log, Line("traceback", idx, 0))
              /\ pc' = "exit"
              /\ exit_code' = 1
              /\ UNCHANGED <<ok, idx>>
    /\ UNCHANGED <<urls_map, entries, body, out_files, scrapes>>
    /\ UNCHANGED callVars

NextBatch ==
    \/ MainMissingFile
    \/ MainLoad
    \/ LoopNext
    \/ LoopDone
    \/ FetchFails
    \/ FetchOk
    \/ WriteTmpOk
    \/ WriteTmpRaises
    \/ ScrapeRuns
    \/ Cleanup

----------------------------------------------------------------------------
(* What a batch run has done so far, read off the printed lines. *)

Printed(kind, i) == {n \in 1..Len(log) : log[n].kind = kind /\ log[n].a = i}

\* The run ended by printing "Built s/t timetables".
TallyIs(s, t) ==
    /\ log # <<>>
    /\ log[Len(log)].kind = "built"
    /\ log[Len(log)].a = s
    /\ log[Len(log)].b = t

\* The entries whose fetch and scrape both succeeded.
Succeeded == {n \in 1..Len(scrapes) : scrapes[n].result = "ok"}

\* C1: in a batch run over a non-empty table a failure at any stage of one
\* entry (fetch, writing the temporary file, launching or running the scrape
\* subprocess) does not abort the batch: when the process ends, every entry
\* has been attempted exactly once and the succeeded/total tally was printed.
C1_FailureNeverAbortsBatch ==
    (pc = "exit" /\ entries # <<>>) =>
        /\ \A i \in 1..Len(entries) : Cardinality(Printed("entry", i)) = 1
        /\ TallyIs(Cardinality(Succeeded), Len(entries))

\* C2: a table with exactly one entry whose fetch fails: the scrape step is
\* never started, no output file is created, the tally is 0/1 and the
\* process ends with exit code 0.
C2_SingleFetchFailure ==
    (pc = "exit" /\ Len(entries) = 1 /\ Printed("fetch_failed", 1) # {}) =>
        /\ scrapes = <<>>
        /\ DOMAIN out_files = {}
        /\ TallyIs(0, 1)
        /\ exit_code = 0

C2_Witness ==
    /\ pc = "exit"
    /\ Len(entries) = 1
    /\ Printed("fetch_failed", 1) # {}
    /\ exit_code = 0

\* C3: two different (program, year) entries never get the same output file
\* name, so a run in which every entry succeeds leaves as many timetable
\* files as the table has entries.
C3_OneFilePerEntry ==
    /\ \A i, j \in 1..Len(entries) :
           i # j => output_filename(entries[i].program, entries[i].year)
                        # output_filename(entries[j].program, entries[j].year)
    /\ (pc = "exit" /\ entries # <<>> /\ ok = Len(entries)) =>
           Cardinality(DOMAIN out_files) = Len(entries)

\* C10: the temporary page file written for one entry is gone when
\* fetch_and_build returns, whether the scrape succeeded or failed, so no
\* entry's page exists between two entries; and every scrape step reads the
\* page fetched for its own entry.
C10_TmpNotSharedAcrossEntries ==
    /\ (pc \in {"loop", "fetch", "write"} \/ (pc = "exit" /\ exit_code = 0)) =>
           \/ tmp = <<>>
           \/ tmp = <<Stale>> /\ scrapes = <<>>
    /\ \A n \in 1..Len(scrapes) :
           scrapes[n].input = PageAt(entries[scrapes[n].entry].url)

C10_Witness ==
    /\ pc = "fetch"
    /\ idx = 2
    /\ tmp = <<>>
    /\ Len(scrapes) = 1
    /\ scrapes[1].result = "CalledProcessError"
    /\ scrapes[1].input = PageAt(entries[1].url)

Init == InitBatch /\ IdleSlug /\ IdleInfo /\ IdleEntry /\ IdleScrape /\ IdleRender

Next == NextBatch

Spec == Init /\ [][Next]_vars

----------------------------------------------------------------------------
(* slug as a function of its label. *)

SlugAlphabet == {"a", "B", "_", "-", " ", ","}

InitSlug ==
    /\ label \in StringsUpTo(SlugAlphabet, MaxLabelLen)
    /\ slugged = <<>>
    /\ IdleBatch
    /\ IdleInfo
    /\ IdleEntry
    /\ IdleScrape
    /\ IdleRender

CallSlug ==
    /\ slugged = <<>>
    /\ slugged' = <<slug(label)>>
    /\ UNCHANGED <<label, batchVars, infoVars, entryVars, scrapeVars, renderVars>>

SpecSlug == InitSlug /\ [][CallSlug]_vars

\* Each run of consecutive underscores becomes one underscore.
RECURSIVE CollapseUnderscores(_)
CollapseUnderscores(s) ==
    IF Len(s) < 2 THEN s
    ELSE IF s[1] = "_" /\ s[2] = "_" THEN CollapseUnderscores(Tail(s))
    ELSE <<s[1]>> \o CollapseUnderscores(Tail(s))

NoAdjacentUnderscores(s) == \A k \in 1..(Len(s) - 1) : ~(s[k] = "_" /\ s[k + 1] = "_")

\* The slug the claim describes.
DescribedSlug(s) ==
    LET r == CollapseUnderscores([k \in 1..Len(s) |->
                 IF IsWord(s[k]) THEN ToLower(s[k]) ELSE "_"])
    IN  IF r = <<>> THEN Page ELSE r

\* C5 as stated: slug(s) is the lowercased label with every non-word
\* character replaced by an underscore and every run of underscores
\* collapsed to one, "page" when nothing remains; it never has two adjacent
\* underscores and is never empty.
C5_SlugCollapsed ==
    slugged # <<>> =>
        /\ slugged[1] = DescribedSlug(label)
        /\ NoAdjacentUnderscores(slugged[1])
        /\ slugged[1] # <<>>

\* A character that survives at the ends of a slug: a letter, a digit or a hyphen.
IsSolid(c) == (IsWord(c) /\ c # "_") \/ c = "-"

\* C5, amended: slug(s) is never empty and never starts or ends with an
\* underscore; it is "page" when the label has no letter, digit or hyphen,
\* and otherwise it is the label from its first to its last such character,
\* lowercased, with every other character than the underscore replaced, one
\* for one, by an underscore (runs of underscores are kept as they are).
C5_SlugOneForOne ==
    slugged # <<>> =>
        LET r == slugged[1]
            solid == {k \in 1..Len(label) : IsSolid(label[k])}
        IN  /\ r # <<>>
            /\ r[1] # "_" /\ r[Len(r)] # "_"
            /\ \A k \in 1..Len(r) : ~IsUpper(r[k]) /\ (IsWord(r[k]) \/ r[k] = "-")
            /\ solid = {} => r = Page
            /\ solid # {} =>
                   LET i == SetMin(solid)
                   IN  /\ Len(r) = SetMax(solid) - i + 1
                       /\ \A k \in 1..Len(r) :
                              r[k] = IF IsSolid(label[i + k - 1]) THEN ToLower(label[i + k - 1])
                                     ELSE "_"

\* A label whose slug keeps a run of two underscores.
C5_Witness ==
    /\ slugged # <<>>
    /\ \E k \in 1..(Len(slugged[1]) - 1) : slugged[1][k] = "_" /\ slugged[1][k + 1] = "_"
    /\ \E k \in 1..Len(label) : label[k] = ","

----------------------------------------------------------------------------
(* scrape_timetable.parse_info_slot *)

\* info_text.replace("\xa0", " ")
ReplaceNbsp(s) == [k \in 1..Len(s) |-> IF s[k] = NBSP THEN " " ELSE s[k]]

\* str.rstrip(chars): drop the trailing characters that are in S.
RStripSet(s, S) ==
    LET keep == {k \in 1..Len(s) : s[k] \notin S}
    IN  IF keep = {} THEN <<>> ELSE SubSeq(s, 1, SetMax(keep))

\* Where \s* starting at position j stops.
SkipSpaces(text, j) ==
    LET stop == {k \in j..Len(text) : ~IsSpace(text[k])}
    IN  IF stop = {} THEN Len(text) + 1 ELSE SetMin(stop)

\* Where \d+ starting at position j stops (j itself when there is no digit).
SkipDigits(text, j) ==
    LET stop == {k \in j..Len(text) : ~IsDigit(text[k])}
    IN  IF stop = {} THEN Len(text) + 1 ELSE SetMin(stop)

\* The pattern with the dot left unescaped: "gr", any character, digits.
GrMatchesAt_unescaped_dot(text, i) ==
    /\ i + 3 <= Len(text)
    /\ i = 1 \/ ~IsWord(text[i - 1])
    /\ ToLower(text[i]) = "g"
    /\ ToLower(text[i + 1]) = "r"
    /\ text[i + 2] # NL
    /\ LET j == SkipSpaces(text, i + 3)
       IN  j <= Len(text) /\ IsDigit(text[j])

\* re.search(r"\bgr\.\s*(\d+)", text, re.IGNORECASE) matches at position i.
GrMatchesAt(text, i) ==
    /\ i + 3 <= Len(text)
    /\ i = 1 \/ ~IsWord(text[i - 1])
    /\ ToLower(text[i]) = "g"
    /\ ToLower(text[i + 1]) = "r"
    /\ text[i + 2] = "."
    /\ LET j == SkipSpaces(text, i + 3)
       IN  j <= Len(text) /\ IsDigit(text[j])

\* re.search(r"\(\s*([^)]+)\s*\)", text) matches at position i: an opening
\* parenthesis, at least one character, and the next closing parenthesis.
RoomMatchesAt(text, i) ==
    /\ text[i] = "("
    /\ \E j \in (i + 2)..Len(text) :
           /\ text[j] = ")"
           /\ \A k \in (i + 1)..(j - 1) : text[k] # ")"

\* str.split(",")[0]
BeforeComma(text) ==
    LET commas == {k \in 1..Len(text) : text[k] = ","}
    IN  IF commas = {} THEN text ELSE SubSeq(text, 1, SetMin(commas) - 1)

parse_info_slot(s) ==
    IF s = <<>> THEN [type |-> <<>>, group |-> <<>>, room |-> <<>>]
    ELSE
    LET text == Strip(ReplaceNbsp(s))
        grs == {i \in 1..Len(text) : GrMatchesAt(text, i)}
        gr == IF grs = {} THEN 0 ELSE SetMin(grs)
        digits == SkipSpaces(text, gr + 3)
        group == IF gr = 0 THEN <<>>
                 ELSE SubSeq(text, digits, SkipDigits(text, digits) - 1)
        type_part == IF gr = 0 THEN Strip(BeforeComma(text))
                     ELSE Strip(RStripSet(Strip(SubSeq(text, 1, gr - 1)), {","}))
        rooms == {i \in 1..Len(text) : RoomMatchesAt(text, i)}
        open == IF rooms = {} THEN 0 ELSE SetMin(rooms)
        close == SetMin({j \in (open + 1)..Len(text) : text[j] = ")"})
        room == IF open = 0 THEN <<>> ELSE Strip(SubSeq(text, open + 1, close - 1))
    IN  [type |-> type_part, group |-> group, room |-> room]

InfoAlphabet == {"W", "g", "r", ".", "1", " ", NBSP, ",", "(", ")"}

InitInfo ==
    /\ info_text \in StringsUpTo(InfoAlphabet, MaxInfoLen)
    /\ info_slot = <<>>
    /\ IdleBatch
    /\ IdleSlug
    /\ IdleEntry
    /\ IdleScrape
    /\ IdleRender

CallParseInfoSlot ==
    /\ info_slot = <<>>
    /\ info_slot' = <<parse_info_slot(info_text)>>
    /\ UNCHANGED <<info_text, batchVars, slugVars, entryVars, scrapeVars, renderVars>>

SpecInfo == InitInfo /\ [][CallParseInfoSlot]_vars

\* The text has a group marker: "gr." and digits, in either case.
HasGroupMarker(s) ==
    \E i \in 1..Len(s) :
        /\ i + 3 <= Len(s)
        /\ ToLower(s[i]) = "g"
        /\ ToLower(s[i + 1]) = "r"
        /\ s[i + 2] = "."
        /\ LET j == SkipSpaces(s, i + 3)
           IN  j <= Len(s) /\ IsDigit(s[j])

HasComma(s) == \E k \in 1..Len(s) : s[k] = ","

----------------------------------------------------------------------------
(* scrape_timetable: the times of one timetable-entry element. *)

\* A style attribute is a list of declarations [prop, value]; a span or div
\* of the entry is <<>> when absent and <<its text>> when present.

\* re.match(r"g(\d{4})", g): "g" and four digits at the start of g.
IsGridToken(g) ==
    /\ Len(g) >= 5
    /\ g[1] = "g"
    /\ \A k \in 2..5 : IsDigit(g[k])

grid_time_to_str(g) ==
    LET t == Strip(g)
    IN  IF ~IsGridToken(t) THEN <<>>
        ELSE <<t[2], t[3], ":", t[4], t[5]>>

\* re.search(prop + r":\s*(g\d{4})", style): the token of the first
\* declaration of prop whose value starts, after whitespace, with a grid
\* token; <<>> when there is none.
GridTokenOf(style, prop) ==
    LET value(k) == SubSeq(style[k].value, SkipSpaces(style[k].value, 1), Len(style[k].value))
        hits == {k \in 1..Len(style) : style[k].prop = prop /\ IsGridToken(value(k))}
    IN  IF hits = {} THEN <<>> ELSE <<SubSeq(value(SetMin(hits)), 1, 5)>>

parse_style_times(style) ==
    LET start_match == GridTokenOf(style, "grid-row-start")
        end_match == GridTokenOf(style, "grid-row-end")
    IN  [start |-> IF start_match # <<>> THEN grid_time_to_str(start_match[1]) ELSE <<>>,
         end |-> IF end_match # <<>> THEN grid_time_to_str(end_match[1]) ELSE <<>>]

\* (\d{1,2}:\d{2}) matches at position i with h hour digits.
TimeAt(text, i, h) ==
    /\ i + h + 2 <= Len(text)
    /\ \A k \in i..(i + h - 1) : IsDigit(text[k])
    /\ text[i + h] = ":"
    /\ IsDigit(text[i + h + 1])
    /\ IsDigit(text[i + h + 2])

\* The hour digits \d{1,2} takes at position i: two if it can, else one, 0 if
\* no time starts there.
HourDigits(text, i) ==
    IF TimeAt(text, i, 2) THEN 2 ELSE IF TimeAt(text, i, 1) THEN 1 ELSE 0

\* The characters the class [...] between the two times accepts: the one
\* written in the source at line 99 (U+2014) and the hyphen.
RangeSeparators == {EMDASH, "-"}

\* The separator class with the en dash put in for the em dash.
SeparatorAt_en_dash(text, k) == k <= Len(text) /\ text[k] \in {ENDASH, "-"}

SeparatorAt(text, k) == k <= Len(text) /\ text[k] \in RangeSeparators

\* re.search(r"(\d{1,2}:\d{2})\s*[...]\s*(\d{1,2}:\d{2})", text) matches at
\* position i: <<>> when it does not, <<[start, end]>> (the two groups) when
\* it does.
RangeAt(text, i) ==
    LET h1 == HourDigits(text, i)
        sep == SkipSpaces(text, i + h1 + 3)
        j == SkipSpaces(text, sep + 1)
        h2 == IF j <= Len(text) THEN HourDigits(text, j) ELSE 0
    IN  IF h1 > 0 /\ SeparatorAt(text, sep) /\ h2 > 0
        THEN <<[start |-> SubSeq(text, i, i + h1 + 2), end |-> SubSeq(text, j, j + h2 + 2)]>>
        ELSE <<>>

TimeRange(text) ==
    LET hits == {i \in 1..Len(text) : RangeAt(text, i) # <<>>}
    IN  IF hits = {} THEN <<>> ELSE RangeAt(text, SetMin(hits))

\* Lines 102-105: a time of four characters gets a leading zero.
PadHour(t) == IF Len(t) = 4 THEN <<"0">> \o t ELSE t

\* The time span's text overriding the start only when the style gave none.
EntryTimes_keep_style_start(e) ==
    LET st == parse_style_times(e.style)
        m == IF e.dialog_ev # <<>> THEN TimeRange(Strip(e.dialog_ev[1])) ELSE <<>>
    IN  IF st.start # <<>> /\ st.end # <<>> THEN st
        ELSE IF m # <<>> THEN [start |-> PadHour(m[1].start), end |-> PadHour(m[1].end)]
        ELSE [start |-> IF e.time_span # <<>> /\ st.start = <<>>
                        THEN Strip(e.time_span[1]) ELSE st.start,
              end |-> st.end]

\* Lines 90-105.
EntryTimes(e) ==
    LET st == parse_style_times(e.style)
        m == IF e.dialog_ev # <<>> THEN TimeRange(Strip(e.dialog_ev[1])) ELSE <<>>
    IN  IF st.start # <<>> /\ st.end # <<>> THEN st
        ELSE IF m # <<>> THEN [start |-> PadHour(m[1].start), end |-> PadHour(m[1].end)]
        ELSE [start |-> IF e.time_span # <<>> THEN Strip(e.time_span[1]) ELSE st.start,
              end |-> st.end]

\* Lines 89-119, the body of the loop over the entries of a day: the events
\* it appends for one entry.
EntryEvents(e, day_name) ==
    LET times == EntryTimes(e)
        slot == parse_info_slot(IF e.info # <<>> THEN e.info[1] ELSE <<>>)
    IN  <<[day |-> day_name,
           start |-> times.start,
           end |-> times.end,
           subject |-> Strip(e.name),
           type |-> slot.type,
           group |-> slot.group,
           room |-> slot.room]>>

----------------------------------------------------------------------------
(* The loop body on one entry. *)

Decl(prop, value) == [prop |-> prop, value |-> value]

\* Declarations with a grid token, with one after a space and before another
\* digit, and with none; and a token under a property that is not a grid row.
StyleDecls ==
    {Decl(q, v) : q \in {"grid-row-start", "grid-row-end"},
                  v \in {<<"g", "0", "9", "4", "5">>, <<" ", "g", "1", "0", "1", "5", "0">>}}
    \cup {Decl("grid-row-start", <<"r", "e", "d">>), Decl("color", <<"g", "0", "9", "4", "5">>)}

Styles == StringsUpTo(StyleDecls, MaxDecls)

ClockTexts == {<<"9", ":", "4", "5">>, <<"1", "0", ":", "1", "5">>}

\* Texts of a dialog-event span: two clock times around a separator, with or
\* without spaces, after a prefix; and two texts without a range.
DialogTexts ==
    {pre \o t1 \o ws \o sep \o ws \o t2 :
        pre \in {<<>>, <<"1">>},
        t1 \in ClockTexts,
        ws \in {<<>>, <<" ">>},
        sep \in {<<"-">>, <<EMDASH>>, <<ENDASH>>, <<"x">>},
        t2 \in ClockTexts} \cup {<<>>, <<"x">>}

Monday == <<"M", "o">>

InitEntry ==
    /\ \E st \in Styles, ts \in {<<>>, << <<>> >>, << <<" ", "8", ":", "0", "0">> >>},
          dt \in {<<>>} \cup {<<d>> : d \in DialogTexts} :
           entry = [style |-> st, name |-> <<"x">>, time_span |-> ts, dialog_ev |-> dt,
                    info |-> <<>>]
    /\ appended = <<>>
    /\ IdleBatch
    /\ IdleSlug
    /\ IdleInfo
    /\ IdleScrape
    /\ IdleRender

RunLoopBody ==
    /\ appended = <<>>
    /\ appended' = <<EntryEvents(entry, Monday)>>
    /\ UNCHANGED <<entry, batchVars, slugVars, infoVars, scrapeVars, renderVars>>

SpecEntry == InitEntry /\ [][RunLoopBody]_vars

\* The style attribute has a grid token for prop.
HasGridToken(style, prop) ==
    \E k \in 1..Len(style) :
        /\ style[k].prop = prop
        /\ \E j \in 1..Len(style[k].value) :
               /\ \A n \in 1..(j - 1) : IsSpace(style[k].value[n])
               /\ IsGridToken(SubSeq(style[k].value, j, Len(style[k].value)))

\* The first technique gives both times.
StyleYieldsBoth(e) ==
    HasGridToken(e.style, "grid-row-start") /\ HasGridToken(e.style, "grid-row-end")

\* A range in a text: a time with h1 hour digits starts at i, a time with h2
\* hour digits starts at j, and between them there is one separator of seps
\* and otherwise only whitespace.
IsRange(text, seps, i, h1, j, h2) ==
    /\ TimeAt(text, i, h1)
    /\ TimeAt(text, j, h2)
    /\ \E k \in (i + h1 + 3)..(j - 1) :
           /\ text[k] \in seps
           /\ \A n \in (i + h1 + 3)..(j - 1) : n # k => IsSpace(text[n])

HasRangeAt(text, seps, i) ==
    \E h1 \in {1, 2} : TimeAt(text, i, h1) /\
        \E j \in (i + h1 + 4)..Len(text) : \E h2 \in {1, 2} : IsRange(text, seps, i, h1, j, h2)

HasRange(text, seps) == \E i \in 1..Len(text) : HasRangeAt(text, seps, i)

\* The time of h hour digits at position i, a single hour digit padded.
PaddedTime(text, i, h) ==
    IF h = 1 THEN <<"0">> \o SubSeq(text, i, i + 3) ELSE SubSeq(text, i, i + 4)

\* The second technique gives both times: the dialog text has a range the
\* pattern of line 99 finds.
DialogYieldsBoth(e) ==
    e.dialog_ev # <<>> /\ HasRange(Strip(e.dialog_ev[1]), RangeSeparators)

\* C8 as stated: when neither technique yields both a start and an end, the
\* event is still emitted and its start and end are both empty.
C8_UntimedEventHasEmptyTimes ==
    (appended # <<>> /\ ~StyleYieldsBoth(entry) /\ ~DialogYieldsBoth(entry)) =>
        /\ Len(appended[1]) = 1
        /\ appended[1][1].start = <<>>
        /\ appended[1][1].end = <<>>

\* C8, amended: when neither technique yields both a start and an end, the
\* event is still emitted and keeps the parts that were found: its end is the
\* style's end token as a time (empty without one), and its start is the
\* trimmed text of the time span when the entry has one, and otherwise the
\* style's start token as a time (empty without one).
C8_UntimedEventKeepsPartialTimes ==
    (appended # <<>> /\ ~StyleYieldsBoth(entry) /\ ~DialogYieldsBoth(entry)) =>
        /\ Len(appended[1]) = 1
        /\ LET ev == appended[1][1]
               spanText == IF entry.time_span = <<>> THEN <<>> ELSE entry.time_span[1]
               inked == {k \in 1..Len(spanText) : ~IsSpace(spanText[k])}
           IN  /\ (ev.end # <<>>) = HasGridToken(entry.style, "grid-row-end")
               /\ ev.end # <<>> => (Len(ev.end) = 5 /\ ev.end[3] = ":")
               /\ entry.time_span = <<>> =>
                      /\ (ev.start # <<>>) = HasGridToken(entry.style, "grid-row-start")
                      /\ ev.start # <<>> => (Len(ev.start) = 5 /\ ev.start[3] = ":")
               /\ entry.time_span # <<>> =>
                      IF inked = {} THEN ev.start = <<>>
                      ELSE ev.start = SubSeq(spanText, SetMin(inked), SetMax(inked))

\* An entry whose only time information is a time span, or a start token
\* and a time span: the event has a start and no end.
C8_Witness ==
    /\ appended # <<>>
    /\ ~StyleYieldsBoth(entry)
    /\ ~DialogYieldsBoth(entry)
    /\ entry.time_span # <<>>
    /\ HasGridToken(entry.style, "grid-row-start")
    /\ appended[1][1].start = <<"8", ":", "0", "0">>
    /\ appended[1][1].end = <<>>

\* The event's times are those of the leftmost range of the dialog text
\* with a separator of seps, whenever the style does not give both times and
\* the text has such a range.
DialogRangeWins(seps) ==
    (appended # <<>> /\ ~StyleYieldsBoth(entry) /\ entry.dialog_ev # <<>>
        /\ HasRange(Strip(entry.dialog_ev[1]), seps)) =>
        LET text == Strip(entry.dialog_ev[1])
        IN  /\ Len(appended[1]) = 1
            /\ \E i \in 1..Len(text) :
                   /\ HasRangeAt(text, seps, i)
                   /\ \A n \in 1..(i - 1) : ~HasRangeAt(text, seps, n)
                   /\ \E h1 \in {1, 2}, j \in (i + 1)..Len(text), h2 \in {1, 2} :
                          /\ IsRange(text, seps, i, h1, j, h2)
                          /\ appended[1][1].start = PaddedTime(text, i, h1)
                          /\ appended[1][1].end = PaddedTime(text, j, h2)

\* C9 as stated: when the style does not yield both grid tokens and the
\* dialog text has two times H:MM or HH:MM joined by an en dash or by a
\* hyphen, the event's start and end are those times, a single-digit hour
\* padded to two digits.
C9_EnDashOrHyphenRange == DialogRangeWins({ENDASH, "-"})

\* C9, amended: the same with the separators the pattern has, the em dash
\* (U+2014) and the hyphen, with optional whitespace around the separator,
\* the times being those of the leftmost such range; a range joined by an en
\* dash (U+2013) is not recognised.
C9_EmDashOrHyphenRange == DialogRangeWins({EMDASH, "-"})

\* A dialog text with a single-digit hour before an em dash.
C9_Witness ==
    /\ appended # <<>>
    /\ ~StyleYieldsBoth(entry)
    /\ entry.dialog_ev # <<>>
    /\ HasRangeAt(Strip(entry.dialog_ev[1]), {EMDASH}, 1)
    /\ TimeAt(Strip(entry.dialog_ev[1]), 1, 1)
    /\ appended[1][1].start = <<"0", "9", ":", "4", "5">>
    /\ appended[1][1].end = <<"1", "0", ":", "1", "5">>

----------------------------------------------------------------------------
(* scrape_timetable.scrape_timetable on a parsed page. *)

\* The page is the tree BeautifulSoup builds: its elements in document
\* order, each with its parent (0 for the soup itself), its tag, its text
\* (of an h4) and its attributes and slots (of a timetable-entry).

RECURSIVE Ancestors(_, _)
Ancestors(p, n) ==
    IF p[n].parent = 0 THEN {} ELSE {p[n].parent} \cup Ancestors(p, p[n].parent)

\* Element n is a descendant of a (every element is one of the soup).
IsInside(p, n, a) == a = 0 \/ a \in Ancestors(p, n)

\* a.find_all(tag): the descendants of a with that tag, in document order.
find_all(p, a, tag) ==
    SelectSeq([n \in 1..Len(p) |-> n], LAMBDA n : p[n].tag = tag /\ IsInside(p, n, a))

\* a.find(tag): the first of them, 0 (None) without one.
find(p, a, tag) ==
    LET found == find_all(p, a, tag)
    IN  IF found = <<>> THEN 0 ELSE found[1]

L_STROKE == "<l-stroke>"
S_ACUTE == "<S-acute>"
A_OGONEK == "<a-ogonek>"

day_names ==
    << <<"P", "o", "n", "i", "e", "d", "z", "i", "a", L_STROKE, "e", "k">>,
       <<"W", "t", "o", "r", "e", "k">>,
       <<S_ACUTE, "r", "o", "d", "a">>,
       <<"C", "z", "w", "a", "r", "t", "e", "k">>,
       <<"P", "i", A_OGONEK, "t", "e", "k">> >>

\* str(n) of a positive integer.
RECURSIVE Decimal(_)
Decimal(n) ==
    LET digit == <<"0", "1", "2", "3", "4", "5", "6", "7", "8", "9">>[(n % 10) + 1]
    IN  IF n < 10 THEN <<digit>> ELSE Decimal(n \div 10) \o <<digit>>

\* Lines 82-87: the label of the i-th day block (i from 0).
DayName(p, td, i) ==
    LET h4 == find(p, p[td].parent, "h4")
    IN  IF h4 # 0 THEN Strip(p[h4].text)
        ELSE IF i < Len(day_names) THEN day_names[i + 1]
        ELSE <<"D", "a", "y", " ">> \o Decimal(i + 1)

\* Lines 89-119 for the entries of one day block, from the k-th on.
RECURSIVE EventsOfEntries(_, _, _, _)
EventsOfEntries(p, found, k, day_name) ==
    IF k > Len(found) THEN <<>>
    ELSE EntryEvents(p[found[k]].entry, day_name)
             \o EventsOfEntries(p, found, k + 1, day_name)

\* Lines 81-119 for the day blocks from the i-th on (i from 0).
RECURSIVE EventsOfDays(_, _, _)
EventsOfDays(p, day_blocks, i) ==
    IF i >= Len(day_blocks) THEN <<>>
    ELSE LET td == day_blocks[i + 1]
         IN  EventsOfEntries(p, find_all(p, td, "timetable-entry"), 1, DayName(p, td, i))
                 \o EventsOfDays(p, day_blocks, i + 1)

scrape_timetable(p) ==
    LET timetable == find(p, 0, "usos-timetable")
        day_blocks == find_all(p, timetable, "timetable-day")
    IN  EventsOfDays(p, day_blocks, 0)

----------------------------------------------------------------------------
(* The pages. *)

BothTokens ==
    <<Decl("grid-row-start", <<"g", "0", "8", "0", "0">>),
      Decl("grid-row-end", <<"g", "0", "9", "4", "5">>)>>

\* The n-th element as a complete entry, and as one with nothing but a name.
CompleteEntry(n) ==
    [style |-> BothTokens, name |-> <<"s">> \o Decimal(n), time_span |-> <<>>,
     dialog_ev |-> <<>>, info |-> << <<"W", ",", " ", "g", "r", ".", NBSP, "1">> >>]

BareEntry(n) == [NoEntry EXCEPT !.name = <<" ", "s">> \o Decimal(n)]

Element(parent, tag, text, e) == [parent |-> parent, tag |-> tag, text |-> text, entry |-> e]

\* What the n-th element of a page can be, under parent a.
ElementsAt(n, a) ==
    {Element(a, "usos-timetable", <<>>, NoEntry),
     Element(a, "timetable-day", <<>>, NoEntry),
     Element(a, "h4", <<" ", "W", "t">>, NoEntry),
     Element(a, "timetable-entry", <<>>, CompleteEntry(n)),
     Element(a, "timetable-entry", <<>>, BareEntry(n))}

\* Document order is the order of the opening tags: the parent of an element
\* is the soup, the element before it, or an ancestor of that element.
IsDocumentOrder(p) ==
    \A n \in 1..Len(p) :
        \/ p[n].parent = 0
        \/ n > 1 /\ p[n].parent \in {n - 1} \cup Ancestors(p, n - 1)

Pages ==
    {p \in UNION {[1..k -> UNION {ElementsAt(n, a) : n \in 1..MaxNodes, a \in 0..(MaxNodes - 1)}] :
                     k \in 0..MaxNodes} :
        /\ \A n \in 1..Len(p) : p[n].parent < n /\ p[n] \in ElementsAt(n, p[n].parent)
        /\ IsDocumentOrder(p)}

InitScrape ==
    /\ page \in Pages
    /\ events = <<>>
    /\ IdleBatch
    /\ IdleSlug
    /\ IdleInfo
    /\ IdleEntry
    /\ IdleRender

CallScrapeTimetable ==
    /\ events = <<>>
    /\ events' = <<scrape_timetable(page)>>
    /\ UNCHANGED <<page, batchVars, slugVars, infoVars, entryVars, renderVars>>

SpecScrape == InitScrape /\ [][CallScrapeTimetable]_vars

\* The schedule entries the extractor's scan covers: the entry elements
\* inside a day container of the timetable element (of the whole page when
\* there is none), in document order.
EntriesFound(p) ==
    LET timetable == find(p, 0, "usos-timetable")
    IN  SelectSeq([n \in 1..Len(p) |-> n],
            LAMBDA n : /\ p[n].tag = "timetable-entry"
                       /\ \E d \in Ancestors(p, n) :
                              p[d].tag = "timetable-day" /\ IsInside(p, d, timetable))

\* C4: scrape_timetable returns exactly one event per schedule entry found,
\* in document order: none is dropped, none is reported twice, and an entry
\* with missing sub-fields still yields its event.
C4_OneEventPerEntryInOrder ==
    events # <<>> =>
        LET found == EntriesFound(page)
        IN  /\ Len(events[1]) = Len(found)
            /\ \A k \in 1..Len(found) :
                   k <= Len(events[1]) =>
                       events[1][k].subject = <<"s">> \o Decimal(found[k])

----------------------------------------------------------------------------
(* scrape_timetable.raw_data_to_js, build_meta_data, meta_data_to_js and    *)
(* generate_readable_html.                                                  *)

\* In the texts of this part a literal fragment of the source that holds no
\* whitespace, quote, backslash, bracket, brace or semicolon of its own is
\* one element of the sequence (for instance "const rawData = "); the
\* characters the patterns and the escaping look at stay single characters.

Spaces(n) == [k \in 1..n |-> " "]

RECURSIVE Concat(_)
Concat(ss) == IF ss = <<>> THEN <<>> ELSE Head(ss) \o Concat(Tail(ss))

\* "\n".join(lines)
RECURSIVE JoinLines(_)
JoinLines(lines) ==
    IF lines = <<>> THEN <<>>
    ELSE IF Len(lines) = 1 THEN lines[1]
    ELSE lines[1] \o <<NL>> \o JoinLines(Tail(lines))

\* s.replace('"', '\\"')
EscapeQuotes(s) ==
    Concat([k \in 1..Len(s) |-> IF s[k] = QUOTE THEN <<BACKSLASH, QUOTE>> ELSE <<s[k]>>])

\* name: "value" of an event line.
JsField(name, value) == <<name, QUOTE>> \o value \o <<QUOTE>>

\* Lines 144-148: the line of one event.
EventLine(e) ==
    Spaces(12) \o <<"{", " ">>
        \o JsField("day: ", e.day) \o <<",", " ">>
        \o JsField("start: ", e.start) \o <<",", " ">>
        \o JsField("end: ", e.end) \o <<",", " ">>
        \o JsField("subject: ", EscapeQuotes(e.subject)) \o <<",", " ">>
        \o JsField("type: ", e.type) \o <<",", " ">>
        \o JsField("group: ", e.group) \o <<",", " ">>
        \o JsField("room: ", EscapeQuotes(e.room)) \o <<" ", "}", ",">>

raw_data_to_js(evs) ==
    IF evs = <<>> THEN Spaces(12) \o <<"// no events">>
    ELSE JoinLines([k \in 1..Len(evs) |-> EventLine(evs[k])])

\* sorted(S) for a set of strs.
RECURSIVE SortedStrs(_)
SortedStrs(S) ==
    IF S = {} THEN <<>>
    ELSE LET least == CHOOSE x \in S : \A y \in S : x = y \/ StrLess(x, y)
         IN  <<least>> \o SortedStrs(S \ {least})

SUBJECT_COLORS ==
    <<"#e3f2fd", "#ffe0b2", "#c8e6c9", "#fff9c4", "#e1bee7", "#b2dfdb",
      "#f0f4c3", "#b3e5fc", "#d1c4e9", "#ffcdd2", "#f8bbd0", "#cfd8dc">>

\* Lines 126-137: subject -> its record, in sorted order of the subjects.
build_meta_data(evs) ==
    LET subjects == SortedStrs({evs[k].subject : k \in {n \in 1..Len(evs) : evs[n].subject # <<>>}})
    IN  [i \in 1..Len(subjects) |->
            [subject |-> subjects[i],
             short |-> IF Len(subjects[i]) <= 20 THEN subjects[i]
                       ELSE SubSeq(subjects[i], 1, 17) \o <<".", ".", ".">>,
             color |-> <<SUBJECT_COLORS[((i - 1) % Len(SUBJECT_COLORS)) + 1]>>]]

\* json.dumps of a str of the characters modelled here.
JsonDumps(s) ==
    <<QUOTE>> \o Concat([k \in 1..Len(s) |->
        CASE s[k] = QUOTE -> <<BACKSLASH, QUOTE>>
          [] s[k] = BACKSLASH -> <<BACKSLASH, BACKSLASH>>
          [] s[k] = NL -> <<BACKSLASH, "n">>
          [] OTHER -> <<s[k]>>]) \o <<QUOTE>>

\* Lines 157-161: the line of one subject.
MetaLine(m) ==
    LET esc == EscapeQuotes(Concat([k \in 1..Len(m.subject) |->
                   IF m.subject[k] = BACKSLASH THEN <<BACKSLASH, BACKSLASH>>
                   ELSE <<m.subject[k]>>]))
        unknown == JsonDumps(<<"?">>)
    IN  Spaces(12) \o <<QUOTE>> \o esc \o <<QUOTE, ":", " ", "{", " ", "ects: ">> \o unknown
            \o <<",", " ", "status: ">> \o unknown
            \o <<",", " ", "verify: ">> \o unknown
            \o <<",", " ", "short: ">> \o JsonDumps(m.short)
            \o <<",", " ", "color: ">> \o JsonDumps(m.color) \o <<" ", "}", ",">>

meta_data_to_js(meta) ==
    IF meta = <<>> THEN Spaces(12) \o <<"// no meta">>
    ELSE JoinLines([k \in 1..Len(meta) |-> MetaLine(meta[k])])

\* html.escape(s)
HtmlEscape(s) ==
    [k \in 1..Len(s) |->
        CASE s[k] = "&" -> "&amp;"
          [] s[k] = "<" -> "&lt;"
          [] s[k] = ">" -> "&gt;"
          [] s[k] = QUOTE -> "&quot;"
          [] s[k] = "'" -> "&#x27;"
          [] OTHER -> s[k]]

\* str.replace(old, new) for an old of one element.
ReplaceAll(text, old, new) ==
    Concat([k \in 1..Len(text) |-> IF text[k] = old THEN new ELSE <<text[k]>>])

\* A match of  head \s* [\s\S]*? \n \s* close ;  that starts at position h
\* ends at the first newline after the head that is followed by optional
\* whitespace, the closing character and a semicolon: 0 when there is no
\* match at h, and otherwise the position of the semicolon.
BlockEnd(text, head, close, h) ==
    LET ends == {n \in (h + 1)..Len(text) :
                    /\ text[n] = NL
                    /\ LET c == SkipSpaces(text, n + 1)
                       IN  c + 1 <= Len(text) /\ text[c] = close /\ text[c + 1] = ";"}
    IN  IF h + 1 > Len(text) \/ text[h] # head \/ text[h + 1] # (IF close = "]" THEN "[" ELSE "{")
           \/ ends = {}
        THEN 0
        ELSE SkipSpaces(text, SetMin(ends) + 1) + 1

\* pattern.search(text): <<>> without a match, <<[from, to]>> for the first one.
SearchBlock(text, head, close) ==
    LET starts == {h \in 1..Len(text) : BlockEnd(text, head, close, h) # 0}
    IN  IF starts = {} THEN <<>>
        ELSE <<[from |-> SetMin(starts), to |-> BlockEnd(text, head, close, SetMin(starts))]>>

\* pattern.sub(lambda _: new, text, count=1)
SubBlock(text, head, close, new) ==
    LET m == SearchBlock(text, head, close)
    IN  IF m = <<>> THEN text
        ELSE SubSeq(text, 1, m[1].from - 1) \o new \o SubSeq(text, m[1].to + 1, Len(text))

RawHead == "const rawData = "
MetaHead == "const metaData = "

PlanTitle == <<"P", "l", "a", "n", " ", "<", "1", ">">>

\* Lines 174-198, with inject_meta left at its default.
generate_readable_html(evs, tpl) ==
    LET titled == ReplaceAll(tpl, "__PLAN_TITLE__", HtmlEscape(PlanTitle))
        raw_js == raw_data_to_js(evs)
        with_raw == SubBlock(titled, RawHead, "]",
                        <<RawHead, "[", NL>> \o raw_js \o <<NL>> \o Spaces(8) \o <<"]", ";">>)
        meta_js == meta_data_to_js(build_meta_data(evs))
    IN  SubBlock(with_raw, MetaHead, "}",
            <<MetaHead, "{", NL>> \o meta_js \o <<NL>> \o Spaces(8) \o <<"}", ";">>)

----------------------------------------------------------------------------
(* The renderer on an event list and a template. *)

Event(subject, room) ==
    [day |-> Monday, start |-> <<"0", "8", ":", "0", "0">>, end |-> <<"0", "9", ":", "4", "5">>,
     subject |-> subject, type |-> <<"W">>, group |-> <<"1">>, room |-> room]

\* Events whose subject or room hold a quote, a newline, a bracket or a
\* semicolon, as the text of a page can.
RenderEvents ==
    {Event(sj, rm) : sj \in {<<"x">>, <<QUOTE, "y">>},
                     rm \in {<<>>, <<"a", ",", " ", "b">>, <<"a", NL, "]", ";">>}}

SampleLine == Spaces(12) \o <<"{", " ", "day: ", QUOTE, "s", QUOTE, " ", "}", ",">>

RawBlock(lines) ==
    <<RawHead, "[", NL>> \o JoinLines(lines) \o <<NL>> \o Spaces(8) \o <<"]", ";", NL>>

MetaBlock == <<MetaHead, "{", NL>> \o Spaces(8) \o <<"}", ";", NL>>

\* template.html with its sample data, with an empty event block and no
\* metadata block, and a template without the event block.
Templates ==
    {<<"<title>", "__PLAN_TITLE__", "</title>", NL>>
         \o RawBlock(<<SampleLine, SampleLine>>) \o MetaBlock \o <<"</script>">>,
     <<"<title>", "__PLAN_TITLE__", "</title>", NL>> \o RawBlock(<<>>) \o <<"</script>">>,
     <<"<title>", "__PLAN_TITLE__", "</title>", NL>> \o MetaBlock \o <<"</script>">>}

InitRender ==
    /\ event_list \in StringsUpTo(RenderEvents, MaxEvents)
    /\ template \in Templates
    /\ rendered = <<>>
    /\ IdleBatch
    /\ IdleSlug
    /\ IdleInfo
    /\ IdleEntry
    /\ IdleScrape

CallGenerateReadableHtml ==
    /\ rendered = <<>>
    /\ rendered' = <<generate_readable_html(event_list, template)>>
    /\ UNCHANGED <<event_list, template, batchVars, slugVars, infoVars, entryVars, scrapeVars>>

SpecRender == InitRender /\ [][CallGenerateReadableHtml]_vars

\* The event records a scan of the text recovers: the records that open
\* inside the event-array block, from the start-of-array marker to its
\* end-of-array marker.
RecordsRecovered(text) ==
    LET m == SearchBlock(text, RawHead, "]")
    IN  IF m = <<>> THEN 0
        ELSE Cardinality({n \in m[1].from..m[1].to :
                 /\ text[n] = "day: "
                 /\ n > 2 /\ text[n - 1] = " " /\ text[n - 2] = "{"})

HasEventBlock(tpl) == SearchBlock(tpl, RawHead, "]") # <<>>

\* C7: after generate_readable_html has rendered an event list into the
\* template, scanning the output for the injected event-array block
\* recovers as many event records as the list has events.
C7_RenderRoundTrip ==
    (rendered # <<>> /\ HasEventBlock(template)) =>
        RecordsRecovered(rendered[1]) = Len(event_list)

====
